---- MODULE Spec2Model ----
(***************************************************************************)
(* Two-stage thumbnail generation pipeline.                                *)
(*                                                                         *)
(*   GeminiService.generateStrategy        (src/services/geminiService.ts) *)
(*   GeminiService.generateThumbnailImage  (src/services/geminiService.ts) *)
(*   App: handleGenerate, renderImageOnly  (src/unnamed/part_000)          *)
(*                                                                         *)
(* JavaScript values are encoded as follows.                               *)
(*   - null / undefined / an absent optional field is None (the empty      *)
(*     tuple); a present value v is Some(v) (the one-element tuple).       *)
(*   - A string is a sequence of segments.  The segmentation is chosen so  *)
(*     that the marker "SAFETY" (and its other spellings) is always a      *)
(*     segment of its own, which makes String.prototype.includes a search  *)
(*     for a segment.  The empty string is the empty sequence.             *)
(*   - An async function runs atomically from one await to the next: the   *)
(*     JavaScript event loop never interleaves another handler inside a    *)
(*     synchronous stretch or a chain of microtasks.                       *)
(***************************************************************************)
EXTENDS Integers, Sequences, FiniteSets, Bags, TLC

VARIABLES
    form,            \* useState<ThumbnailRequest>: title and niche
    loadingPhase,    \* useState<'idle' | 'strategizing' | 'rendering'>
    result,          \* useState<GenerationResult | null>
    error,           \* useState<string | null>
    tasks,           \* the invocations of handleGenerate / renderImageOnly awaiting a provider
    lastStep,        \* the handler step that produced the current state
    orderly,         \* every invocation so far that reached a provider was made in phase idle
    renderedFor,     \* the document whose render call returned the image of the result
    call             \* one exchange of generateThumbnailImage with the image provider

vars == <<form, loadingPhase, result, error, tasks, lastStep, orderly, renderedFor, call>>

(***************************************************************************)
(* Bounds                                                                  *)
(***************************************************************************)
MaxInFlight    == 2   \* handler invocations awaiting a provider at one time
MaxParts       == 2   \* content parts per candidate in an image response
MaxCandidates  == 2   \* candidates per image response

None    == <<>>
Some(v) == <<v>>

(***************************************************************************)
(* Strings of the program                                                  *)
(***************************************************************************)
SafetyMarker == "SAFETY"

ValidationMsg     == <<"Please fill in the title and niche.">>
StrategyFallback  == <<"Failed to generate strategy.">>
RenderFallback    == <<"Rendering hit a snag. Retrying often fixes this.">>
EmptyResponseMsg  == <<"Empty image response. This usually indicates ", "safety",
                       " filter intervention.">>
NoImageMsg        == <<"No image data returned from rendering engine.">>
SafetyBlockMsg    == <<"Safety", " Block: The content or subject image triggered ", "safety",
                       " filters. Try a different concept.">>
DataUrlPrefix     == "data:image/png;base64,"

\* Messages of the JavaScript runtime
TrimTypeErrorMsg  == <<"Cannot read properties of undefined (reading 'trim')">>
NullTypeErrorMsg  == <<"Cannot read properties of null (reading 'visualElements')">>
JsonSyntaxMsg     == <<"Unexpected token in JSON">>

\* An Error object; message is None for an error thrown without one.
Err(m)  == [ok |-> FALSE, value |-> None, message |-> m]
Ok(v)   == [ok |-> TRUE,  value |-> Some(v), message |-> None]

\* Mutant: the search ignores case
Includes_IgnoreCase(s, marker) ==
    \E k \in 1..Len(s) : s[k] = marker \/ (marker = "SAFETY" /\ s[k] \in {"safety", "Safety"})

\* String.prototype.includes(marker), marker being one segment
Includes(s, marker) == \E k \in 1..Len(s) : s[k] = marker

\* error.message?.includes(marker): undefined (falsy) when there is no message
MessageIncludes(m, marker) == m # None /\ Includes(m[1], marker)

\* err.message || fallback: an absent or empty message gives the fallback
OrElse(m, fallback) == IF m = None \/ m[1] = <<>> THEN fallback ELSE m[1]

(***************************************************************************)
(* Strategy Synthesizer: GeminiService.generateStrategy                    *)
(***************************************************************************)
\* The documents the reasoning provider can describe
Strategies == {"s1", "s2"}

\* String.prototype.trim over tokens: " " is white space
RECURSIVE TrimLeft(_)
TrimLeft(t) == IF t # <<>> /\ Head(t) = " " THEN TrimLeft(Tail(t)) ELSE t

RECURSIVE TrimRight(_)
TrimRight(t) ==
    IF t # <<>> /\ t[Len(t)] = " " THEN TrimRight(SubSeq(t, 1, Len(t) - 1)) ELSE t

Trim(t) == TrimRight(TrimLeft(t))

\* Mutant: a truncated object is accepted
JSONParse_Lenient(t) ==
    IF Len(t) >= 2 /\ t[1] = "{" /\ t[2] \in Strategies THEN Ok(t[2])
    ELSE Err(Some(JsonSyntaxMsg))

\* JSON.parse over tokens.  The texts considered are an object "{" d "}"
\* naming a document, and malformed ones, which raise a SyntaxError.
JSONParse(t) ==
    IF Len(t) = 3 /\ t[1] = "{" /\ t[3] = "}" /\ t[2] \in Strategies THEN Ok(t[2])
    ELSE Err(Some(JsonSyntaxMsg))

\* What the reasoning provider can answer: a rejection (transport error, rate
\* limit, safety rejection), or a response whose text may be absent.
ReasoningReplies ==
    { [failed |-> TRUE, message |-> m, text |-> None] :
        m \in {Some(<<"429 RESOURCE_EXHAUSTED">>)} }
    \cup
    { [failed |-> FALSE, message |-> None, text |-> t] :
        t \in { None,
                Some(<<"{", "s1", "}">>),
                Some(<<" ", "{", "s2", "}", " ">>),
                Some(<<"{", "s1">>),
                Some(<<>>) } }

\* generateStrategy, from the provider's reply on: response.text.trim(), JSON.parse
generateStrategy(reply) ==
    IF reply.failed THEN Err(reply.message)
    ELSE IF reply.text = None THEN Err(Some(TrimTypeErrorMsg))
    ELSE JSONParse(Trim(reply.text[1]))

(***************************************************************************)
(* Image Renderer: GeminiService.generateThumbnailImage                    *)
(***************************************************************************)
ImageData == {"d1", "d2"}

\* A content part: text only (inlineData absent) or inline image data
Parts == { [inlineData |-> d] : d \in {None} \cup { Some(x) : x \in ImageData } }

SeqUpTo(S, n) == UNION { [1..k -> S] : k \in 0..n }

\* content?: { parts?: Part[] }
Contents == { [parts |-> p] : p \in {None} \cup { Some(q) : q \in SeqUpTo(Parts, MaxParts) } }

Candidates == { [content |-> c] : c \in {None} \cup { Some(x) : x \in Contents } }

ProviderErrorMessages ==
    { None,
      Some(<<>>),
      Some(<<"429 RESOURCE_EXHAUSTED">>),
      Some(<<"Image generation blocked: ", "SAFETY">>),
      Some(<<"finishReason ", "SAFETY", " (prohibited content)">>),
      Some(<<"blocked by ", "safety", " settings">>) }

ImageFailures == { [failed |-> TRUE, message |-> m, candidates |-> None] :
                     m \in ProviderErrorMessages }

ImageResponses == { [failed |-> FALSE, message |-> None, candidates |-> c] :
                      c \in {None} \cup { Some(x) : x \in SeqUpTo(Candidates, MaxCandidates) } }

ImageReplies == ImageFailures \cup ImageResponses

\* response.candidates?.[0]?.content?.parts
FirstParts(reply) ==
    IF reply.candidates = None THEN None
    ELSE IF Len(reply.candidates[1]) = 0 THEN None
    ELSE IF reply.candidates[1][1].content = None THEN None
    ELSE reply.candidates[1][1].content[1].parts

\* for (const part of parts) if (part.inlineData) return ...
RECURSIVE FirstInline(_)
FirstInline(parts) ==
    IF parts = <<>> THEN None
    ELSE IF Head(parts).inlineData # None THEN Head(parts).inlineData
    ELSE FirstInline(Tail(parts))

\* The try block from the provider's reply on (lines 144-164).  An absent
\* value is falsy; an array, even an empty one, is truthy.
RenderTry(reply) ==
    IF reply.failed THEN Err(reply.message)
    ELSE IF FirstParts(reply) = None THEN Err(Some(EmptyResponseMsg))
    ELSE IF FirstInline(FirstParts(reply)[1]) # None
         THEN Ok(<<DataUrlPrefix, FirstInline(FirstParts(reply)[1])[1]>>)
    ELSE Err(Some(NoImageMsg))

\* The catch block (lines 165-170)
RenderCatch(e) ==
    IF MessageIncludes(e.message, SafetyMarker) THEN Err(Some(SafetyBlockMsg)) ELSE e

\* A strategy argument that is null
NullDoc == "null"

\* Building the prompt reads strategy.visualElements, which throws a TypeError
\* on null before any request is sent.
PromptThrows(strategy) == strategy = NullDoc

generateThumbnailImage(strategy, reply) ==
    LET tried == IF PromptThrows(strategy) THEN Err(Some(NullTypeErrorMsg))
                 ELSE RenderTry(reply)
    IN  IF tried.ok THEN tried ELSE RenderCatch(tried)

(***************************************************************************)
(* Generation Orchestrator: App (src/unnamed/part_000)                     *)
(***************************************************************************)
Titles == {"", "I Tried X for 30 Days"}
Niches == {"", "Fitness"}

\* The image replies the orchestrator is exercised with: one of each kind
OrchestratorImageReplies ==
    { [failed |-> TRUE, message |-> None, candidates |-> None],
      [failed |-> TRUE, message |-> Some(<<"Image generation blocked: ", "SAFETY">>),
       candidates |-> None],
      [failed |-> FALSE, message |-> None, candidates |-> Some(<<>>)],
      [failed |-> FALSE, message |-> None,
       candidates |-> Some(<<[content |-> Some([parts |-> Some(<<[inlineData |-> Some("d1")]>>)])]>>)] }

NoStrategy == "-"

\* Not an invocation: the task of a step that belongs to none
NoTask ==
    [ kind |-> "none", pc |-> "none", strategy |-> NoStrategy, prior |-> None,
      alone |-> TRUE ]

\* Invocations awaiting a provider (tasks is a bag of them)
InFlight == BagToSet(tasks)

\* Calls outstanding at each provider
OutstandingReasoning == { t \in InFlight : t.pc = "awaitStrategy" }
OutstandingImage     == { t \in InFlight : t.pc = "awaitImage" }
Outstanding          == BagCardinality(tasks)

\* Mutant: the caller holds every document, whatever the result shows
KnownStrategies_Any == Strategies

\* Documents the caller holds: that of the current result and those of the
\* renders still running (the current and the previous ones)
KnownStrategies ==
    ( (IF result = None THEN {} ELSE {result[1].strategy})
      \cup { t.strategy : t \in OutstandingImage } ) \ {NoStrategy}

Add(ts, t)    == ts (+) SetToBag({t})
Remove(ts, t) == ts (-) SetToBag({t})

\* A new invocation overlaps every invocation still running: none of them
\* runs alone any more
Overlapped(ts) ==
    LET marked(t) == [t EXCEPT !.alone = FALSE, !.prior = None] IN
    [ u \in { marked(t) : t \in BagToSet(ts) } |->
        BagCardinality([ t \in { x \in BagToSet(ts) : marked(x) = u } |-> CopiesIn(t, ts) ]) ]

NewTask(kind, pc, strategy) ==
    [ kind        |-> kind,
      pc          |-> pc,
      strategy    |-> strategy,
      \* no other invocation overlaps this one
      alone       |-> tasks = EmptyBag,
      \* the result handleGenerate found when invoked, kept while it runs alone
      prior       |-> IF kind = "generate" /\ tasks = EmptyBag THEN result ELSE None ]

\* The record of a handler step: what ran, the phase it found, the invocation
\* it belongs to, the reasoning provider's text it received, the provider it
\* sent a request to, and, for a manual render invoked right after the return
\* of another manual render of the same document, how that one ended.
Step(op, task, text, sent, again) ==
    [ op |-> op, from |-> loadingPhase, task |-> task, text |-> text, sent |-> sent,
      again |-> again ]

\* Mutant: the niche is not checked
ValidRequest_TitleOnly(f) == f.title # ""

\* if (!form.title || !form.niche): an empty string is falsy
ValidRequest(f) == f.title # "" /\ f.niche # ""

\* Mutant: handleGenerate keeps the previous result while it runs
ResultOnGenerate_Keeps(prev) == prev

\* setResult(null) on entry to handleGenerate
ResultOnGenerate(prev) == None

\* Mutant: handleGenerate does not announce the strategizing phase
PhaseOnGenerate_Idle == "idle"

\* setLoadingPhase('strategizing')
PhaseOnGenerate == "strategizing"

\* setResult({ strategy })
ResultOnStrategy(prev, strategy) == Some([strategy |-> strategy, imageUrl |-> None])

\* the catch of handleGenerate leaves the result alone
ResultOnStrategyError(prev) == prev

\* setLoadingPhase('idle') in the catch of handleGenerate
PhaseOnStrategyError == "idle"

\* Mutant: renderImageOnly does not announce the rendering phase
PhaseOnRender_Stale == "strategizing"

\* Mutant: renderImageOnly shows the phase idle while the image call runs
PhaseOnRender_Idle == "idle"

\* setLoadingPhase('rendering') on entry to renderImageOnly
PhaseOnRender == "rendering"

\* Mutant: the result is rebuilt from the rendered document instead of updated
ResultOnImage_Rebuilds(prev, strategy, imageUrl) ==
    Some([strategy |-> strategy, imageUrl |-> Some(imageUrl)])

\* setResult(prev => prev ? { ...prev, imageUrl } : { strategy, imageUrl })
ResultOnImage(prev, strategy, imageUrl) ==
    IF prev # None THEN Some([prev[1] EXCEPT !.imageUrl = Some(imageUrl)])
    ELSE Some([strategy |-> strategy, imageUrl |-> Some(imageUrl)])

\* Mutant: a failed render discards the result
ResultOnImageError_Discards(prev) == None

\* the catch of renderImageOnly leaves the result alone
ResultOnImageError(prev) == prev

\* Mutant: no finally; the phase is left as it is
PhaseAfterRender_Stuck == "rendering"

\* setLoadingPhase('idle') in the finally of renderImageOnly
PhaseAfterRender == "idle"

Init ==
    /\ form = [title |-> "", niche |-> ""]
    /\ loadingPhase = "idle"
    /\ result = None
    /\ error = None
    /\ tasks = EmptyBag
    /\ lastStep = Step("init", NoTask, None, "none", "no")
    /\ orderly = TRUE
    /\ renderedFor = NoStrategy
    /\ call = None

\* onChange of the title input: setForm({ ...form, title })
setTitle(t) ==
    /\ form.title # t
    /\ form' = [form EXCEPT !.title = t]
    /\ UNCHANGED <<loadingPhase, result, error, tasks, lastStep, orderly, renderedFor, call>>

\* onChange of the niche input: setForm({ ...form, niche })
setNiche(n) ==
    /\ form.niche # n
    /\ form' = [form EXCEPT !.niche = n]
    /\ UNCHANGED <<loadingPhase, result, error, tasks, lastStep, orderly, renderedFor, call>>

\* handleGenerate up to its first await (lines 148-160)
handleGenerate ==
    IF ~ValidRequest(form)
    THEN /\ error' = Some(ValidationMsg)
         /\ lastStep' = Step("validationError", NoTask, None, "none", "no")
         /\ UNCHANGED <<form, loadingPhase, result, tasks, orderly, renderedFor, call>>
    ELSE /\ Outstanding < MaxInFlight
         /\ result' = ResultOnGenerate(result)
         /\ loadingPhase' = PhaseOnGenerate
         /\ error' = None
         /\ LET new == NewTask("generate", "awaitStrategy", NoStrategy) IN
            /\ tasks' = Add(Overlapped(tasks), new)
            /\ lastStep' = Step("generate", new, None, "reasoning", "no")
         /\ orderly' = (orderly /\ loadingPhase = "idle")
         /\ renderedFor' = NoStrategy
         /\ UNCHANGED <<form, call>>

\* handleGenerate from the return of generateStrategy on (lines 160-167),
\* with renderImageOnly up to its await (lines 133-138)
handleGenerateResumed(t) ==
    /\ t \in OutstandingReasoning
    /\ \E reply \in ReasoningReplies :
         LET got == generateStrategy(reply) IN
         IF ~got.ok
         THEN /\ result' = ResultOnStrategyError(result)
              /\ error' = Some(OrElse(got.message, StrategyFallback))
              /\ loadingPhase' = PhaseOnStrategyError
              /\ tasks' = Remove(tasks, t)
              /\ lastStep' = Step("strategyFailed", t, reply.text, "none", "no")
              /\ UNCHANGED <<form, orderly, renderedFor, call>>
         ELSE /\ result' = ResultOnStrategy(result, got.value[1])
              /\ loadingPhase' = PhaseOnRender
              /\ error' = None
              /\ LET now == [t EXCEPT !.pc = "awaitImage", !.strategy = got.value[1],
                                      !.prior = None] IN
                 /\ tasks' = Add(Remove(tasks, t), now)
                 /\ lastStep' = Step("strategyOk", now, reply.text, "image", "no")
              /\ renderedFor' = NoStrategy
              /\ UNCHANGED <<form, orderly, call>>

\* renderImageOnly invoked by the caller, up to its await (lines 133-138)
renderImageOnly(strategy) ==
    /\ Outstanding < MaxInFlight
    /\ loadingPhase' = PhaseOnRender
    /\ error' = None
    /\ LET new == NewTask("render", "awaitImage", strategy) IN
       /\ tasks' = Add(Overlapped(tasks), new)
       /\ lastStep' = Step("render", new, None, "image",
                           IF /\ lastStep.op \in {"imageOk", "imageFailed"}
                              /\ lastStep.task.kind = "render"
                              /\ lastStep.task.strategy = strategy
                           THEN lastStep.op ELSE "no")
    /\ orderly' = (orderly /\ loadingPhase = "idle")
    /\ UNCHANGED <<form, result, renderedFor, call>>

\* renderImageOnly from the return of generateThumbnailImage on (lines 138-145)
renderImageOnlyResumed(t) ==
    /\ t \in OutstandingImage
    /\ \E reply \in OrchestratorImageReplies :
         LET got   == generateThumbnailImage(t.strategy, reply)
             again == IF lastStep.op = "render" /\ lastStep.task = t THEN lastStep.again
                      ELSE "no"
         IN
         /\ IF got.ok
            THEN /\ result' = ResultOnImage(result, t.strategy, got.value[1])
                 /\ error' = error
                 /\ lastStep' = Step("imageOk", t, None, "none", again)
                 /\ renderedFor' = t.strategy
            ELSE /\ result' = ResultOnImageError(result)
                 /\ error' = Some(OrElse(got.message, RenderFallback))
                 /\ lastStep' = Step("imageFailed", t, None, "none", again)
                 /\ renderedFor' = renderedFor
         /\ tasks' = Remove(tasks, t)
         /\ loadingPhase' = PhaseAfterRender
         /\ UNCHANGED <<form, orderly, call>>

Next ==
    \/ \E t \in Titles : setTitle(t)
    \/ \E n \in Niches : setNiche(n)
    \/ handleGenerate
    \/ \E t \in InFlight : handleGenerateResumed(t)
    \/ \E s \in KnownStrategies : renderImageOnly(s)
    \/ \E t \in InFlight : renderImageOnlyResumed(t)

Spec == Init /\ [][Next]_vars

\* Every provider call is answered or rejected in the end
FairSpec ==
    /\ Spec
    /\ WF_vars(\E t \in InFlight : handleGenerateResumed(t))
    /\ WF_vars(\E t \in InFlight : renderImageOnlyResumed(t))

(***************************************************************************)
(* The Image Renderer on its own: one exchange with the image provider     *)
(***************************************************************************)
RendererStrategies == Strategies \cup {NullDoc}

RendererInit ==
    /\ form = [title |-> "", niche |-> ""]
    /\ loadingPhase = "idle"
    /\ result = None
    /\ error = None
    /\ tasks = EmptyBag
    /\ lastStep = Step("init", NoTask, None, "none", "no")
    /\ orderly = TRUE
    /\ renderedFor = NoStrategy
    /\ \E s \in RendererStrategies, r \in ImageReplies :
         call = [strategy |-> s, reply |-> r, returned |-> None]

RendererReturns ==
    /\ call.returned = None
    /\ call' = [call EXCEPT !.returned = Some(generateThumbnailImage(call.strategy, call.reply))]
    /\ UNCHANGED <<form, loadingPhase, result, error, tasks, lastStep, orderly, renderedFor>>

RendererSpec == RendererInit /\ [][RendererReturns]_vars

(***************************************************************************)
(* The request of the Image Renderer: generateThumbnailImage up to its     *)
(* await (lines 116-152).  Here the strategy is the value JSON.parse       *)
(* returned, field by field: every field may be absent, and the two lists  *)
(* of visualElements may hold something that is not an array.              *)
(***************************************************************************)
MaxImages == 2   \* reference images passed to the Renderer

AbsentOr(S) == {None} \cup { Some(x) : x \in S }

\* A JSON value that is an array of strings, and one that is a string
Arr(items) == [type |-> "array",  items |-> items]
Str(text)  == [type |-> "string", text |-> text]

\* ThumbnailDesign (types.ts), every field optional in practice
Concepts ==
    AbsentOr([ idea : AbsentOr({<<"giant wave">>}),
               hook : AbsentOr({<<"fear of missing out">>}) ])

MainTexts == AbsentOr({ <<>>, <<"I QUIT SUGAR">> })

ObjectsValues ==
    AbsentOr({ Arr(<<>>), Arr(<<<<"hat">>>>), Arr(<<<<"hat">>, <<"fire">>>>),
               Str(<<"hat and fire">>) })

DirectionalValues ==
    AbsentOr({ Arr(<<>>), Arr(<<<<"red arrow">>, <<"yellow circle">>>>),
               Str(<<"red arrow">>) })

VisualElements ==
    AbsentOr([ expression          : AbsentOr({<<"shocked face">>}),
               objects             : ObjectsValues,
               directionalElements : DirectionalValues,
               backgroundStyle     : AbsentOr({<<"blurred office">>}) ])

ColorPalettes ==
    AbsentOr([ primary    : AbsentOr({<<"#ff0000">>}),
               accent     : AbsentOr({<<"#ffee00">>}),
               text       : AbsentOr({<<"#ffffff">>}),
               background : AbsentOr({<<"#101010">>}) ])

LayoutInstructions ==
    AbsentOr([ textPlacement    : AbsentOr({<<"left">>}),
               subjectPlacement : AbsentOr({<<"opposite to text">>}),
               arrowDirections  : AbsentOr({Arr(<<<<"towards text">>>>)}),
               negativeSpace    : AbsentOr({<<"upper third">>}) ])

\* The document with every field present
FullDesign ==
    [ concept            |-> Some([ idea |-> Some(<<"giant wave">>),
                                    hook |-> Some(<<"fear of missing out">>) ]),
      mainText           |-> Some(<<"I QUIT SUGAR">>),
      visualElements     |-> Some([ expression          |-> Some(<<"shocked face">>),
                                    objects             |-> Some(Arr(<<<<"hat">>, <<"fire">>>>)),
                                    directionalElements |->
                                        Some(Arr(<<<<"red arrow">>, <<"yellow circle">>>>)),
                                    backgroundStyle     |-> Some(<<"blurred office">>) ]),
      colorPalette       |-> Some([ primary    |-> Some(<<"#ff0000">>),
                                    accent     |-> Some(<<"#ffee00">>),
                                    text       |-> Some(<<"#ffffff">>),
                                    background |-> Some(<<"#101010">>) ]),
      layoutInstructions |-> Some([ textPlacement    |-> Some(<<"left">>),
                                    subjectPlacement |-> Some(<<"opposite to text">>),
                                    arrowDirections  |-> Some(Arr(<<<<"towards text">>>>)),
                                    negativeSpace    |-> Some(<<"upper third">>) ]) ]

\* The documents the Renderer is exercised with: the full document with one
\* of its five fields taken over all its shapes, and the documents whose
\* fields are each either absent or as in the full document
ThumbnailDesigns ==
    { [FullDesign EXCEPT !.concept = c] : c \in Concepts }
    \cup { [FullDesign EXCEPT !.mainText = m] : m \in MainTexts }
    \cup { [FullDesign EXCEPT !.visualElements = v] : v \in VisualElements }
    \cup { [FullDesign EXCEPT !.colorPalette = c] : c \in ColorPalettes }
    \cup { [FullDesign EXCEPT !.layoutInstructions = l] : l \in LayoutInstructions }
    \cup [ concept            : {None, FullDesign.concept},
           mainText           : {None, FullDesign.mainText},
           visualElements     : {None, FullDesign.visualElements},
           colorPalette       : {None, FullDesign.colorPalette},
           layoutInstructions : {None, FullDesign.layoutInstructions} ]

\* AspectRatio (types.ts)
AspectRatios == {"16:9", "9:16", "1:1", "4:3"}

\* ThumbnailImage (types.ts): data is a data URL, as FileReader.readAsDataURL
\* and canvas.toDataURL produce it
ThumbnailImages ==
    { [data |-> <<"data:image/jpeg;base64", ",", "/9j/4AAQ">>, mimeType |-> "image/jpeg"],
      [data |-> <<"data:image/png;base64", ",", "iVBORw0K">>, mimeType |-> "image/png"] }

\* Array.isArray(v), v possibly absent
IsArray(v) == v # None /\ v[1].type = "array"

\* Mutant: a value that is not an array is taken as a one-element list
ArrayOrEmpty_Wraps(v) ==
    IF v = None THEN <<>> ELSE IF v[1].type = "array" THEN v[1].items ELSE <<v[1].text>>

\* Array.isArray(v) ? v : []
ArrayOrEmpty(v) == IF IsArray(v) THEN v[1].items ELSE <<>>

\* Mutant: only the first item is written
Join_First(items, sep) == IF items = <<>> THEN <<>> ELSE items[1]

\* Array.prototype.join(sep)
RECURSIVE Join(_, _)
Join(items, sep) ==
    IF items = <<>> THEN <<>>
    ELSE IF Len(items) = 1 THEN items[1]
    ELSE items[1] \o <<sep>> \o Join(Tail(items), sep)

\* String.prototype.split(sep), sep being one segment
RECURSIVE Split(_, _)
Split(s, sep) ==
    IF \A k \in 1..Len(s) : s[k] # sep THEN <<s>>
    ELSE LET k == CHOOSE i \in 1..Len(s) : s[i] = sep /\ \A j \in 1..(i - 1) : s[j] # sep
         IN  <<SubSeq(s, 1, k - 1)>> \o Split(SubSeq(s, k + 1, Len(s)), sep)

\* pieces[1] in JavaScript: the second piece, undefined when there is none
Second(pieces) == IF Len(pieces) >= 2 THEN Some(pieces[2]) ELSE None

\* object?.field: absent when the object is absent
Field(object, name) == IF object = None THEN None ELSE object[1][name]

\* Fixed text of the prompt template (lines 121-132)
PropsLabel           == ". Props: "
TextLabel            == ". Text: Giant 3D bold text saying \""
BackgroundLabel      == ". Background: "
DirectionalLabel     == " colors. Glow effects, thick outlines, directional "
ReferenceInstruction ==
    "Use the provided reference image(s) to accurately represent the person or subject."

\* promptText (lines 118-132)
PromptText(strategy, ratio) ==
    LET objects             == ArrayOrEmpty(Field(strategy.visualElements, "objects"))
        directionalElements == ArrayOrEmpty(Field(strategy.visualElements, "directionalElements"))
    IN  <<"Viral ", ratio, " YouTube/Social Media Thumbnail. High CTR style. Subject: ">>
        \o OrElse(Field(strategy.visualElements, "expression"), <<"person">>)
        \o <<". Focus: ">>
        \o OrElse(Field(strategy.concept, "idea"), <<"intense scene">>)
        \o <<PropsLabel>>
        \o OrElse(Some(Join(objects, ", ")), <<"none">>)
        \o <<TextLabel>>
        \o OrElse(strategy.mainText, <<>>)
        \o <<"\" placed at ">>
        \o OrElse(Field(strategy.layoutInstructions, "textPlacement"), <<"center">>)
        \o <<". Aesthetics: Extremely high contrast, vibrant ">>
        \o OrElse(Field(strategy.colorPalette, "primary"), <<"red">>)
        \o <<" and ">>
        \o OrElse(Field(strategy.colorPalette, "accent"), <<"yellow">>)
        \o <<DirectionalLabel>>
        \o OrElse(Some(Join(directionalElements, ", ")), <<"arrows">>)
        \o <<BackgroundLabel>>
        \o OrElse(Field(strategy.visualElements, "backgroundStyle"), <<"vibrant gradient">>)
        \o <<". Masterpiece, 4k, hyper-detailed, MrBeast aesthetic. ">>
        \o <<ReferenceInstruction>>

\* parts: the prompt, then one inline part per reference image (lines 134-142)
RequestParts(promptText, subjectImages) ==
    <<[text |-> Some(promptText), inlineData |-> None]>>
    \o [ i \in 1..Len(subjectImages) |->
           [ text       |-> None,
             inlineData |-> Some([ data     |-> Second(Split(subjectImages[i].data, ",")),
                                   mimeType |-> subjectImages[i].mimeType ]) ] ]

\* The request handed to generateContent (lines 144-152), or the TypeError of
\* reading strategy.visualElements on null, which the catch block rethrows
RenderRequest(strategy, ratio, subjectImages) ==
    IF strategy = None THEN Err(Some(NullTypeErrorMsg))
    ELSE Ok([ parts       |-> RequestParts(PromptText(strategy[1], ratio), subjectImages),
              aspectRatio |-> ratio ])

PromptInit ==
    /\ form = [title |-> "", niche |-> ""]
    /\ loadingPhase = "idle"
    /\ result = None
    /\ error = None
    /\ tasks = EmptyBag
    /\ lastStep = Step("init", NoTask, None, "none", "no")
    /\ orderly = TRUE
    /\ renderedFor = NoStrategy
    /\ \E s \in AbsentOr(ThumbnailDesigns), r \in AspectRatios,
          imgs \in SeqUpTo(ThumbnailImages, MaxImages) :
         call = [strategy |-> s, ratio |-> r, subjectImages |-> imgs, sent |-> None]

RendererSends ==
    /\ call.sent = None
    /\ call' = [call EXCEPT
                  !.sent = Some(RenderRequest(call.strategy, call.ratio, call.subjectImages))]
    /\ UNCHANGED <<form, loadingPhase, result, error, tasks, lastStep, orderly, renderedFor>>

PromptSpec == PromptInit /\ [][RendererSends]_vars

(***************************************************************************)
(* Properties                                                              *)
(***************************************************************************)
TypeOK ==
    /\ form \in [title : Titles, niche : Niches]
    /\ loadingPhase \in {"idle", "strategizing", "rendering"}
    /\ result = None \/ (result[1].strategy \in Strategies /\ Len(result[1].imageUrl) <= 1)
    /\ Len(error) <= 1
    /\ IsABag(tasks) /\ Outstanding <= MaxInFlight
    /\ \A t \in InFlight : t.alone => tasks = SetToBag({t})
    /\ tasks = EmptyBag => loadingPhase = "idle"
    /\ renderedFor \in Strategies \cup {NoStrategy}
    /\ (result # None /\ result[1].imageUrl # None) <=> renderedFor # NoStrategy

LastTask == lastStep.task

\* The last step belongs to a handleGenerate that no other invocation has
\* overlapped: it was invoked with none running, hence in phase idle (TypeOK)
GenerateAlone == LastTask.kind = "generate" /\ LastTask.alone

HasStrategy(s) == result # None /\ result[1].strategy = s
HasImage       == result # None /\ result[1].imageUrl # None

\* C1 as claimed, for a Generate that runs alone: started in phase idle with a
\* valid request it goes idle -> strategizing; when the Synthesizer succeeds it
\* goes strategizing -> rendering -> idle, and the result at the end holds the
\* strategy and an image.
C1_AsClaimed ==
    /\ lastStep.op = "generate" /\ lastStep.from = "idle"
         => loadingPhase = "strategizing"
    /\ lastStep.op = "strategyOk" /\ GenerateAlone
         => lastStep.from = "strategizing" /\ loadingPhase = "rendering"
    /\ lastStep.op \in {"imageOk", "imageFailed"} /\ GenerateAlone
         => /\ lastStep.from = "rendering" /\ loadingPhase = "idle"
            /\ HasStrategy(LastTask.strategy) /\ HasImage

\* C1 amended: a Generate started in phase idle with a valid request goes
\* idle -> strategizing; if no other invocation overlaps it, Synthesizer success
\* takes it strategizing -> rendering with the strategy stored and no image, the
\* return of the Renderer takes it rendering -> idle with the strategy kept, and
\* the result holds an image as well when the Renderer succeeded.
C1_Pipeline ==
    /\ lastStep.op = "generate" /\ lastStep.from = "idle"
         => loadingPhase = "strategizing" /\ result = None
    /\ lastStep.op = "generate" /\ GenerateAlone => lastStep.from = "idle"
    /\ lastStep.op = "strategyOk" /\ GenerateAlone
         => /\ lastStep.from = "strategizing" /\ loadingPhase = "rendering"
            /\ result = Some([strategy |-> LastTask.strategy, imageUrl |-> None])
    /\ lastStep.op \in {"imageOk", "imageFailed"} /\ GenerateAlone
         => /\ lastStep.from = "rendering" /\ loadingPhase = "idle"
            /\ HasStrategy(LastTask.strategy)
            /\ HasImage <=> lastStep.op = "imageOk"

C1_Witness ==
    /\ lastStep.op = "imageOk" /\ GenerateAlone
    /\ HasStrategy(LastTask.strategy) /\ HasImage /\ loadingPhase = "idle"

\* C2: a Generate invoked with an empty title or an empty niche leaves the
\* phase as it was (idle stays idle), sets the validation error, and sends
\* nothing to either provider: no invocation starts awaiting one.
C2_ValidationError ==
    [][ handleGenerate /\ (form.title = "" \/ form.niche = "")
          => /\ loadingPhase' = loadingPhase
             /\ error' = Some(ValidationMsg)
             /\ tasks' = tasks
             /\ result' = result
             /\ lastStep'.sent = "none" ]_vars

C2_Witness ==
    /\ lastStep.op = "validationError" /\ lastStep.from = "idle"
    /\ form.title # "" /\ form.niche = ""
    /\ loadingPhase = "idle" /\ error = Some(ValidationMsg) /\ tasks = EmptyBag

\* Requests outstanding at the reasoning provider
ReasoningCount == BagCardinality([ t \in OutstandingReasoning |-> CopiesIn(t, tasks) ])

\* Requests outstanding at the image provider
ImageCount == BagCardinality([ t \in OutstandingImage |-> CopiesIn(t, tasks) ])

\* renderImageOnly can be invoked on the document of the current result
CanRenderAgain ==
    result # None => result[1].strategy \in KnownStrategies /\ Outstanding < MaxInFlight

\* C3: a failed Render, automatic or manual, leaves the result as it was, so
\* the strategy it holds is neither discarded nor changed; an error is
\* recorded; and renderImageOnly can be invoked again on that strategy.  When
\* no other invocation overlapped, the result holds the strategy rendered.
C3_RenderFailureKeepsStrategy ==
    [][ \A t \in InFlight :
          renderImageOnlyResumed(t) /\ lastStep'.op = "imageFailed"
            => /\ result' = result
               /\ error' # None
               /\ t.alone => HasStrategy(t.strategy)'
               /\ CanRenderAgain' ]_vars

C3_Witness ==
    /\ lastStep.op = "imageFailed" /\ LastTask.kind = "render"
    /\ HasStrategy(LastTask.strategy) /\ ~HasImage /\ error # None

\* C4: a manual Render sends a request to the image provider only: neither
\* its invocation nor its return, successful or not, adds a request at the
\* reasoning provider, and the strategy of the result stays the same (with no
\* result, the only one that can appear is the strategy rendered).
C4_RenderOnlyRenders ==
    [][ /\ \A s \in Strategies :
             renderImageOnly(s)
               => /\ ReasoningCount' = ReasoningCount
                  /\ ImageCount' = ImageCount + 1
                  /\ lastStep'.sent = "image"
                  /\ result' = result
        /\ \A t \in InFlight :
             t.kind = "render" /\ renderImageOnlyResumed(t)
               => /\ ReasoningCount' = ReasoningCount
                  /\ ImageCount' = ImageCount - 1
                  /\ lastStep'.sent = "none"
                  /\ result # None => result' # None /\ result'[1].strategy = result[1].strategy
                  /\ result = None => (result' = None \/ HasStrategy(t.strategy)') ]_vars

\* Two manual renders of one document in a row, the first failed, the second succeeded
C4_Witness ==
    /\ lastStep.op = "imageOk" /\ LastTask.kind = "render" /\ lastStep.again = "imageFailed"
    /\ HasStrategy(LastTask.strategy) /\ HasImage /\ ReasoningCount = 0

\* C5 as claimed, for a Generate that runs alone: after a failed reasoning
\* call the result is the one that existed when that Generate was invoked.
C5_AsClaimed == lastStep.op = "strategyFailed" /\ LastTask.alone => result = LastTask.prior

\* C5 amended: handleGenerate discards the result on entry, and the failure of
\* the reasoning call leaves the result as it finds it: with no overlapping
\* invocation there is no result after the failure.
C5_FailureLeavesCleared ==
    [][ /\ handleGenerate /\ form.title # "" /\ form.niche # "" => result' = None
        /\ \A t \in InFlight :
             handleGenerateResumed(t) /\ lastStep'.op = "strategyFailed"
               => /\ result' = result
                  /\ t.alone => result' = None ]_vars

C5_Witness ==
    /\ lastStep.op = "strategyFailed" /\ LastTask.alone
    /\ LastTask.prior # None /\ result = None

\* Texts of ReasoningReplies that are not JSON
InvalidJsonTexts == { <<"{", "s1">>, <<>> }

\* C6: when the text of the reasoning provider is not valid JSON, the
\* Synthesizer fails: that Generate stores no result (none is there at the end
\* unless another invocation stored one), an error is recorded, the phase is
\* idle, and no request goes to the image provider.
C6_InvalidJson ==
    [][ \A t \in InFlight :
          handleGenerateResumed(t) /\ lastStep'.text \in { Some(x) : x \in InvalidJsonTexts }
            => /\ lastStep'.op = "strategyFailed"
               /\ result' = result
               /\ t.alone => result' = None
               /\ error' = Some(JsonSyntaxMsg)
               /\ loadingPhase' = "idle"
               /\ lastStep'.sent = "none"
               /\ ImageCount' = ImageCount ]_vars

C6_Witness ==
    /\ lastStep.op = "strategyFailed" /\ lastStep.text = Some(<<"{", "s1">>)
    /\ LastTask.alone /\ result = None /\ error = Some(JsonSyntaxMsg)
    /\ loadingPhase = "idle" /\ tasks = EmptyBag

\* C7: the return of the image provider, success or failure, puts the phase
\* back to idle; and since every call is answered in the end, a phase of
\* rendering always leads to idle.
C7_RenderReturnsToIdle ==
    /\ [][ \A t \in InFlight : renderImageOnlyResumed(t) => loadingPhase' = "idle" ]_vars
    /\ (loadingPhase = "rendering") ~> (loadingPhase = "idle")

C7_Witness ==
    /\ lastStep.op = "imageFailed" /\ lastStep.from = "rendering" /\ loadingPhase = "idle"

\* C8 as claimed: at most one provider call is outstanding, whatever the
\* caller invokes.
C8_AsClaimed == Outstanding <= 1

\* C8 amended: as long as every invocation was made in phase idle, at most one
\* provider call is outstanding.
C8_OrderlyCallerOneCall == orderly => Outstanding <= 1

C8_Witness ==
    /\ orderly /\ lastStep.op = "render" /\ Outstanding = 1 /\ HasImage

(***************************************************************************)
(* Properties of the Image Renderer (RendererSpec)                         *)
(***************************************************************************)
\* The content parts of a response, over all its candidates
PartsOf(candidate) ==
    IF candidate.content = None \/ candidate.content[1].parts = None THEN <<>>
    ELSE candidate.content[1].parts[1]

AllParts(reply) ==
    IF reply.candidates = None THEN {}
    ELSE UNION { { <<c, k>> : k \in 1..Len(PartsOf(reply.candidates[1][c])) } :
                 c \in 1..Len(reply.candidates[1]) }

CarriesImage(reply) ==
    \E ck \in AllParts(reply) :
        PartsOf(reply.candidates[1][ck[1]])[ck[2]].inlineData # None

\* The exchange has returned, the provider having answered with a response
RendererAnswered ==
    call # None /\ call.returned # None /\ ~call.reply.failed /\ ~PromptThrows(call.strategy)

\* C9 as claimed: for a response without image data, the Renderer fails with
\* the Empty error exactly when the response has no content part at all, and
\* with the NoImagePayload error exactly when it has one.
C9_AsClaimed ==
    RendererAnswered /\ ~CarriesImage(call.reply)
      => /\ call.returned[1] = Err(Some(EmptyResponseMsg)) <=> AllParts(call.reply) = {}
         /\ call.returned[1] = Err(Some(NoImageMsg)) <=> AllParts(call.reply) # {}

\* What the try block of generateThumbnailImage threw, if anything
Thrown ==
    IF PromptThrows(call.strategy) THEN Err(Some(NullTypeErrorMsg)) ELSE RenderTry(call.reply)

CarriesMarker(m) == m # None /\ \E k \in 1..Len(m[1]) : m[1][k] = "SAFETY"

\* C10: a failure whose message carries the safety marker comes out as the
\* SafetyBlocked error with its guidance; every other failure, the Renderer's
\* own Empty and NoImagePayload errors included, comes out unchanged; no
\* failure is swallowed.
C10_SafetyResurfaced ==
    call # None /\ call.returned # None /\ ~Thrown.ok
      => /\ ~call.returned[1].ok
         /\ IF CarriesMarker(Thrown.message)
            THEN call.returned[1] = Err(Some(SafetyBlockMsg))
            ELSE call.returned[1] = Thrown
         /\ Thrown.message \in {Some(EmptyResponseMsg), Some(NoImageMsg)}
              => call.returned[1] = Thrown

C10_Witness ==
    /\ call # None /\ call.returned # None
    /\ call.reply.failed /\ CarriesMarker(call.reply.message)
    /\ call.returned[1] = Err(Some(SafetyBlockMsg))

\* The content parts of a response in response order: those of the first
\* candidate, then those of the second, and so on
RECURSIVE PartsInOrder(_)
PartsInOrder(candidates) ==
    IF candidates = <<>> THEN <<>>
    ELSE PartsOf(Head(candidates)) \o PartsInOrder(Tail(candidates))

\* C11 as claimed: whenever a content part of the response carries inline
\* image data, the Renderer succeeds and returns the payload of the first such
\* part in response order, behind the prefix data:image/png;base64,.
C11_AsClaimed ==
    RendererAnswered /\ CarriesImage(call.reply)
      => call.returned[1] =
           Ok(<<DataUrlPrefix, FirstInline(PartsInOrder(call.reply.candidates[1]))[1]>>)

(***************************************************************************)
(* Properties of the Renderer's request (PromptSpec)                       *)
(***************************************************************************)
\* The Renderer was given a document and has reached its await
RendererAsked == call # None /\ call.sent # None /\ call.strategy # None

\* The document given to the Renderer, and the prompt it sent
AskedDesign == call.strategy[1]
SentPrompt  == call.sent[1].value[1].parts[1].text[1]

\* s has t as a contiguous part
Contains(s, t) == \E i \in 1..(Len(s) - Len(t) + 1) : SubSeq(s, i, i + Len(t) - 1) = t

\* A field that is absent or holds something other than a sequence
NotASequence(v) == v = None \/ v[1].type # "array"

\* C12: for a document whose visualElements.objects or
\* visualElements.directionalElements is absent or not a sequence
\* (visualElements itself may be absent), building the prompt raises no error
\* and the request is issued, with the prompt and one part per reference
\* image; the props of such a list are written as the literal none, its
\* directional cues as the literal arrows.
C12_CoercedLists ==
    RendererAsked =>
      LET objects     == Field(AskedDesign.visualElements, "objects")
          directional == Field(AskedDesign.visualElements, "directionalElements")
      IN  /\ NotASequence(objects) \/ NotASequence(directional)
               => /\ call.sent[1].ok
                  /\ call.sent[1].value[1].aspectRatio = call.ratio
                  /\ Len(call.sent[1].value[1].parts) = 1 + Len(call.subjectImages)
          /\ NotASequence(objects)
               => call.sent[1].ok /\ Contains(SentPrompt, <<PropsLabel, "none", TextLabel>>)
          /\ NotASequence(directional)
               => /\ call.sent[1].ok
                  /\ Contains(SentPrompt, <<DirectionalLabel, "arrows", BackgroundLabel>>)

\* visualElements present, objects a string and directionalElements absent
C12_Witness ==
    /\ RendererAsked /\ AskedDesign.visualElements # None
    /\ AskedDesign.visualElements[1].objects = Some(Str(<<"hat and fire">>))
    /\ AskedDesign.visualElements[1].directionalElements = None
    /\ call.sent[1].ok
    /\ Contains(SentPrompt, <<PropsLabel, "none", TextLabel>>)
    /\ Contains(SentPrompt, <<DirectionalLabel, "arrows", BackgroundLabel>>)

\* C13 as claimed: the prompt holds the instruction to depict the supplied
\* reference subject exactly when the Renderer was given at least one
\* reference image.
C13_AsClaimed ==
    RendererAsked /\ call.sent[1].ok
      => (Contains(SentPrompt, <<ReferenceInstruction>>) <=> call.subjectImages # <<>>)

\* The value a string field holds, if present
ValuesOf(v) == IF v = None THEN {} ELSE {v[1]}

\* The values a list field holds, if present: its items, or the string found
\* in place of a list
ItemsOf(v) ==
    IF v = None THEN {}
    ELSE IF v[1].type = "array" THEN { v[1].items[k] : k \in 1..Len(v[1].items) }
    ELSE {v[1].text}

\* The values of the fields the prompt template reads
ReadValues(d) ==
    ValuesOf(Field(d.concept, "idea"))
    \cup ValuesOf(d.mainText)
    \cup ValuesOf(Field(d.visualElements, "expression"))
    \cup ValuesOf(Field(d.visualElements, "backgroundStyle"))
    \cup ValuesOf(Field(d.colorPalette, "primary"))
    \cup ValuesOf(Field(d.colorPalette, "accent"))
    \cup ValuesOf(Field(d.layoutInstructions, "textPlacement"))
    \cup (IF NotASequence(Field(d.visualElements, "objects")) THEN {}
          ELSE ItemsOf(Field(d.visualElements, "objects")))
    \cup (IF NotASequence(Field(d.visualElements, "directionalElements")) THEN {}
          ELSE ItemsOf(Field(d.visualElements, "directionalElements")))

\* The values of every field of the document
AllValues(d) ==
    ReadValues(d)
    \cup ValuesOf(Field(d.concept, "hook"))
    \cup ValuesOf(Field(d.colorPalette, "text"))
    \cup ValuesOf(Field(d.colorPalette, "background"))
    \cup ValuesOf(Field(d.layoutInstructions, "subjectPlacement"))
    \cup ValuesOf(Field(d.layoutInstructions, "negativeSpace"))
    \cup ItemsOf(Field(d.layoutInstructions, "arrowDirections"))
    \cup ItemsOf(Field(d.visualElements, "objects"))
    \cup ItemsOf(Field(d.visualElements, "directionalElements"))

\* C14 as claimed: every field of the document that is present has its value
\* in the prompt the Renderer sends.
C14_AsClaimed ==
    RendererAsked => call.sent[1].ok /\ \A v \in AllValues(AskedDesign) : Contains(SentPrompt, v)

\* C14 amended: every field of the document that the prompt reads and that is
\* present has its value in the prompt the Renderer sends: concept.idea,
\* mainText, visualElements.expression and backgroundStyle, colorPalette.primary
\* and accent, layoutInstructions.textPlacement, and each item of
\* visualElements.objects and directionalElements when these are sequences.
C14_ReadFieldsInPrompt ==
    RendererAsked => call.sent[1].ok /\ \A v \in ReadValues(AskedDesign) : Contains(SentPrompt, v)

C14_Witness ==
    /\ RendererAsked /\ AskedDesign = FullDesign /\ call.sent[1].ok
    /\ Contains(SentPrompt, <<TextLabel, "I QUIT SUGAR", "\" placed at ", "left">>)
    /\ Contains(SentPrompt, <<"hat", ", ", "fire">>)

(***************************************************************************)
(* Properties of the Orchestrator under overlapping invocations (Spec)     *)
(***************************************************************************)
\* C15 as claimed: whenever the result holds an image, the image was returned
\* by a render call made for the strategy of that result, whatever the caller
\* invokes and however the provider calls complete.
C15_AsClaimed == HasImage => renderedFor = result[1].strategy

\* C15 amended: as long as every invocation was made in phase idle (a manual
\* render then being given the strategy of the result), whenever the result
\* holds an image, the image was returned by a render call made for the
\* strategy of that result.
C15_OrderlyImageOfStrategy == orderly /\ HasImage => renderedFor = result[1].strategy

\* A manual render of the result's strategy replaced its image
C15_Witness ==
    /\ orderly /\ HasImage /\ renderedFor = result[1].strategy
    /\ lastStep.op = "imageOk" /\ LastTask.kind = "render" /\ lastStep.again = "imageOk"

\* C16 as claimed: whenever the phase is idle, no call is outstanding at
\* either provider, whatever the caller invokes.
C16_AsClaimed == loadingPhase = "idle" => Outstanding = 0

\* C16 amended: as long as every invocation was made in phase idle, whenever
\* the phase is idle no call is outstanding at either provider.
C16_OrderlyIdleNothingOutstanding == orderly /\ loadingPhase = "idle" => Outstanding = 0

\* The pipeline of a Generate ended with a failed render and nothing is left running
C16_Witness ==
    /\ orderly /\ loadingPhase = "idle" /\ Outstanding = 0
    /\ lastStep.op = "imageFailed" /\ LastTask.kind = "generate" /\ lastStep.from = "rendering"

====
